---- MODULE Spec2Model ----
(***************************************************************************)
(* Model of so1ikkk/lab7, src/main.py:                                     *)
(*   - logger: the logging decorator (wrapper closure, two sink variants), *)
(*   - get_currencies: HTTP + JSON fetch of exchange rates,                *)
(*   - solve_quadratic: closed-form quadratic solver.                      *)
(* Python values are modelled by integers and strings; the text of a log   *)
(* message is built character for character as the f-strings build it.     *)
(***************************************************************************)
EXTENDS Integers, Sequences, FiniteSets, TLC

(***************************************************************************)
(* Bounds of the model.                                                    *)
(***************************************************************************)
NumThreads == 2
MaxWrappers == 2
MaxCalls == 2
MaxFaults == 1

Threads == 1..NumThreads

(***************************************************************************)
(* Python values and outcomes of a call.                                   *)
(***************************************************************************)
\* An outcome is a returned value or a raised exception (type and message).
NoOut == [kind |-> "none", val |-> 0, etype |-> "", emsg |-> ""]
Returned(v) == [kind |-> "return", val |-> v, etype |-> "", emsg |-> ""]
Raised(ty, m) == [kind |-> "raise", val |-> 0, etype |-> ty, emsg |-> m]

\* The exception types that derive from Exception; KeyboardInterrupt and
\* SystemExit derive from BaseException only.
ExceptionTypes == {"ValueError", "TypeError", "KeyError", "ConnectionError",
                   "ZeroDivisionError", "OSError"}
IsException(ty) == ty \in ExceptionTypes

(***************************************************************************)
(* The callables handed to logger and the argument lists they are called   *)
(* with.  A callable is a plain function (op) or a wrapper built by logger.*)
(***************************************************************************)
Ops == {"test_func"}

None == [kind |-> "none", op |-> "", w |-> 0]
OpFunc(o) == [kind |-> "op", op |-> o, w |-> 0]
WrapperFunc(i) == [kind |-> "wrapper", op |-> "", w |-> i]

\* args is a tuple, kwargs a dict (a sequence of <<key, value>> pairs).
CallForms == { [args |-> <<4>>, kwargs |-> <<>>],
               [args |-> <<>>, kwargs |-> << <<"x", 0>> >>],
               [args |-> <<-1>>, kwargs |-> <<>>] }

\* The value bound to the parameter x of def test_func(x).
BindX(args, kwargs) == IF Len(args) > 0 THEN args[1] ELSE kwargs[1][2]

\* What the plain function does with x: it returns x * 2 (test_func of
\* test_success_logging), raises ValueError("boom") (test_func of
\* test_error_logging) when x is 0, and ends with a KeyboardInterrupt,
\* which is not an Exception, when x is negative.
OpBehaviour(o, args, kwargs) ==
    LET x == BindX(args, kwargs)
    IN IF x < 0 THEN Raised("KeyboardInterrupt", "")
       ELSE IF x = 0 THEN Raised("ValueError", "boom")
       ELSE Returned(x * 2)

(***************************************************************************)
(* Rendering of values inside the f-strings.                               *)
(***************************************************************************)
RECURSIVE JoinInts(_)
JoinInts(s) == IF Len(s) = 0 THEN ""
               ELSE IF Len(s) = 1 THEN ToString(s[1])
               ELSE ToString(s[1]) \o ", " \o JoinInts(Tail(s))

\* str of a tuple: "()", "(4,)", "(1, 2)".
StrTuple(args) == IF Len(args) = 1 THEN "(" \o ToString(args[1]) \o ",)"
                  ELSE "(" \o JoinInts(args) \o ")"

RECURSIVE JoinItems(_)
JoinItems(kw) == IF Len(kw) = 0 THEN ""
                 ELSE LET item == "'" \o kw[1][1] \o "': " \o ToString(kw[1][2])
                      IN IF Len(kw) = 1 THEN item
                         ELSE item \o ", " \o JoinItems(Tail(kw))

\* str of a dict: "{}", "{'x': 1}".
StrDict(kw) == "{" \o JoinItems(kw) \o "}"

msg_start(name, args, kwargs) ==
    "START " \o name \o " args=" \o StrTuple(args) \o ", kwargs=" \o StrDict(kwargs)
msg_err(name, e) == "ERROR in " \o name \o ": " \o e.etype \o ": " \o e.emsg
msg_end(name, result) == "END " \o name \o " result=" \o ToString(result)

(***************************************************************************)
(* Sinks.  A handle is a text stream (sys.stdout, io.StringIO) or a        *)
(* logging.Logger.                                                         *)
(***************************************************************************)
Handles == {"stdout", "file_logger"}
IsLoggerType(h) == h = "file_logger"

\* The error a sink raises when a write fails.
SinkError == Raised("OSError", "write failed")

VARIABLES
    wrappers,   \* the wrapper closures built so far: func, handle, is_logger, name
    emitted,    \* the calls the sinks accepted, in the order they were made
    failed,     \* the emissions a sink refused: [inv, w, at]
    stack,      \* per thread, the frames of the wrapper calls in progress
    invs,       \* the calls made by the threads: wrapper, arguments, outcome
    opRuns      \* the executions of plain functions: [inv, w, op, args, kwargs]

VARIABLES
    quad,       \* one call of solve_quadratic: arguments, position, locals, outcome
    quad_log,   \* the calls made on quad_logger: [chan, text]
    cur         \* one call of get_currencies: arguments, feed, position, locals, outcome

wvars == <<wrappers, emitted, failed, stack, invs, opRuns>>
vars == <<wrappers, emitted, failed, stack, invs, opRuns, quad, quad_log, cur>>

\* No call of solve_quadratic or get_currencies is in progress.
QuadIdle == [pc |-> "idle", a |-> [ty |-> "int", v |-> 0], b |-> [ty |-> "int", v |-> 0],
             c |-> [ty |-> "int", v |-> 0], i |-> 1, d |-> 0,
             out |-> [kind |-> "none", roots |-> <<>>, etype |-> "", emsg |-> ""]]
CurIdle == [pc |-> "idle", currency_codes |-> <<>>, net |-> "ok", json |-> TRUE,
            hasValute |-> TRUE, valute |-> <<>>, i |-> 1, result |-> {}, requests |-> 0,
            out |-> [kind |-> "none", result |-> {}, etype |-> "", about |-> ""]]

InitWrapper ==
    /\ wrappers = <<>>
    /\ emitted = <<>>
    /\ failed = {}
    /\ stack = [t \in Threads |-> <<>>]
    /\ invs = <<>>
    /\ opRuns = <<>>

Init ==
    /\ InitWrapper
    /\ quad = QuadIdle
    /\ quad_log = <<>>
    /\ cur = CurIdle

\* func.__name__; functools.wraps copied it onto every wrapper.
NameOf(f) == IF f.kind = "op" THEN f.op ELSE wrappers[f.w].name

\* The plain function at the bottom of wrapper w.
RECURSIVE BaseOp(_)
BaseOp(w) == IF wrappers[w].func.kind = "op" THEN wrappers[w].func.op
             ELSE BaseOp(wrappers[w].func.w)

Callables == {OpFunc(o) : o \in Ops} \cup {WrapperFunc(i) : i \in 1..Len(wrappers)}

(***************************************************************************)
(* logger(func=None, *, handle=sys.stdout)                                 *)
(***************************************************************************)
\* Without func the result is the lambda that calls logger again with the
\* same handle; with func it is the wrapper closure over func, handle and
\* is_logger, to which functools.wraps gave the name of func.
logger(func, handle) ==
    IF func = None
    THEN [kind |-> "lambda", func |-> None, handle |-> handle,
          is_logger |-> FALSE, name |-> "<lambda>"]
    ELSE [kind |-> "wrapper", func |-> func, handle |-> handle,
          is_logger |-> IsLoggerType(handle), name |-> NameOf(func)]

\* lambda f: logger(f, handle=handle)
ApplyLambda(lam, f) == logger(f, lam.handle)

\* A function is wrapped, directly as logger(f, handle=h) or through the
\* decorator form logger(handle=h)(f).
Wrap(f, h, direct) ==
    /\ Len(wrappers) < MaxWrappers
    /\ wrappers' = Append(wrappers, IF direct THEN logger(f, h)
                                    ELSE ApplyLambda(logger(None, h), f))
    /\ UNCHANGED <<emitted, failed, stack, invs, opRuns, quad, quad_log, cur>>

(***************************************************************************)
(* wrapper(args, kwargs)                                                   *)
(* A step of a thread is one call on a sink or one execution of the plain  *)
(* function, together with the statements of the wrapper that lead to the  *)
(* next such call; those touch nothing but the thread's own frame.         *)
(***************************************************************************)
Top(t) == stack[t][Len(stack[t])]
Front(s) == SubSeq(s, 1, Len(s) - 1)
Frame(i, w, args, kwargs) ==
    [inv |-> i, w |-> w, args |-> args, kwargs |-> kwargs, pc |-> "call", res |-> NoOut]

\* One accepted call on a handle: the channel (write, info, error) and the
\* text; event, inv and w record which message of which wrapper call it is.
Entry(fr, event, chan, text) ==
    [handle |-> wrappers[fr.w].handle, chan |-> chan, text |-> text,
     event |-> event, inv |-> fr.inv, w |-> fr.w]

\* The content of the sink behind handle h.
Sink(h) == SelectSeq(emitted, LAMBDA e : e.handle = h)

\* Variant: the write replaces the line another call wrote last.
EmitInfoOverwrite(fr, event, msg) ==
    LET e == IF wrappers[fr.w].is_logger THEN Entry(fr, event, "info", msg)
             ELSE Entry(fr, event, "write", msg \o "\n")
    IN IF emitted # <<>> /\ emitted[Len(emitted)].inv # fr.inv
       THEN [emitted EXCEPT ![Len(emitted)] = e]
       ELSE Append(emitted, e)

\* handle.info(msg) for a Logger, handle.write(msg + "\n") for a stream.
EmitInfo(fr, event, msg) ==
    Append(emitted, IF wrappers[fr.w].is_logger THEN Entry(fr, event, "info", msg)
                    ELSE Entry(fr, event, "write", msg \o "\n"))

\* Variant: the error message goes to handle.info.
EmitErrorAsInfo(fr, event, msg) ==
    Append(emitted, IF wrappers[fr.w].is_logger THEN Entry(fr, event, "info", msg)
                    ELSE Entry(fr, event, "write", msg \o "\n"))

\* handle.error(msg) for a Logger, handle.write(msg + "\n") for a stream.
EmitError(fr, event, msg) ==
    Append(emitted, IF wrappers[fr.w].is_logger THEN Entry(fr, event, "error", msg)
                    ELSE Entry(fr, event, "write", msg \o "\n"))

\* A write the sink refuses: nothing is appended and the call raises.
Refuse(fr, at) == failed \cup {[inv |-> fr.inv, w |-> fr.w, at |-> at]}
CanRefuse == Cardinality(failed) < MaxFaults

\* Where a frame continues once func has returned or raised: the END
\* message, or the except Exception clause.
AfterCall(fr, out) ==
    IF out.kind = "return" THEN [fr EXCEPT !.pc = "end", !.res = out]
    ELSE [fr EXCEPT !.pc = "err", !.res = out]

\* The outcome out leaves the frame above the frames st.  The calling
\* wrapper's try statement takes it; an exception that is not an Exception
\* passes through every wrapper.  With no frame left it reaches the thread.
RECURSIVE Unwind(_, _)
Unwind(st, out) ==
    IF st = <<>> THEN [stack |-> <<>>, out |-> out]
    ELSE IF out.kind = "raise" /\ ~IsException(out.etype)
         THEN Unwind(Front(st), out)
         ELSE [stack |-> Append(Front(st), AfterCall(st[Len(st)], out)), out |-> NoOut]

\* The top frame of thread t ends with out.
Leave(t, out) ==
    LET u == Unwind(Front(stack[t]), out)
        i == Top(t).inv
    IN /\ stack' = [stack EXCEPT ![t] = u.stack]
       /\ invs' = IF u.stack = <<>>
                  THEN [invs EXCEPT ![i] = [@ EXCEPT !.done = TRUE, !.out = u.out]]
                  ELSE invs

\* Wrapper w is entered with a new frame fr: msg_start is written.  When
\* the sink refuses it the wrapper is left at once with the sink's error.
Enter(t, fr, ok) ==
    LET msg == msg_start(NameOf(wrappers[fr.w].func), fr.args, fr.kwargs)
    IN IF ok
       THEN /\ emitted' = EmitInfo(fr, "Start", msg)
            /\ stack' = [stack EXCEPT ![t] = Append(@, fr)]
            /\ UNCHANGED <<failed, invs>>
       ELSE /\ CanRefuse
            /\ failed' = Refuse(fr, "start")
            /\ LET u == Unwind(stack[t], SinkError)
               IN /\ stack' = [stack EXCEPT ![t] = u.stack]
                  /\ invs' = IF u.stack = <<>>
                             THEN [invs EXCEPT ![fr.inv] =
                                      [@ EXCEPT !.done = TRUE, !.out = u.out]]
                             ELSE invs
            /\ UNCHANGED emitted

\* Variant: a refused START message is ignored and the call goes on.
InvokeIgnoreRefusal(t, w, cf, ok) ==
    /\ stack[t] = <<>>
    /\ \A u \in Threads : u < t => stack[u] # <<>>
    /\ Len(invs) < MaxCalls
    /\ w \in 1..Len(wrappers)
    /\ LET i == Len(invs) + 1
       IN /\ invs' = Append(invs, [w |-> w, args |-> cf.args, kwargs |-> cf.kwargs,
                                   done |-> FALSE, out |-> NoOut])
          /\ stack' = [stack EXCEPT ![t] = <<Frame(i, w, cf.args, cf.kwargs)>>]
          /\ IF ok
             THEN /\ emitted' = EmitInfo(Frame(i, w, cf.args, cf.kwargs), "Start",
                                         msg_start(NameOf(wrappers[w].func), cf.args, cf.kwargs))
                  /\ UNCHANGED failed
             ELSE /\ CanRefuse
                  /\ failed' = Refuse(Frame(i, w, cf.args, cf.kwargs), "start")
                  /\ UNCHANGED emitted
    /\ UNCHANGED <<wrappers, opRuns, quad, quad_log, cur>>

\* A thread calls wrapper w.  Threads are interchangeable: the idle thread
\* with the least number makes the call.
Invoke(t, w, cf, ok) ==
    /\ stack[t] = <<>>
    /\ \A u \in Threads : u < t => stack[u] # <<>>
    /\ Len(invs) < MaxCalls
    /\ w \in 1..Len(wrappers)
    /\ LET i == Len(invs) + 1
           new == Append(invs, [w |-> w, args |-> cf.args, kwargs |-> cf.kwargs,
                                done |-> FALSE, out |-> NoOut])
       IN IF ok
          THEN /\ emitted' = EmitInfo(Frame(i, w, cf.args, cf.kwargs), "Start",
                                      msg_start(NameOf(wrappers[w].func), cf.args, cf.kwargs))
               /\ stack' = [stack EXCEPT ![t] = <<Frame(i, w, cf.args, cf.kwargs)>>]
               /\ invs' = new
               /\ UNCHANGED failed
          ELSE /\ CanRefuse
               /\ failed' = Refuse(Frame(i, w, cf.args, cf.kwargs), "start")
               /\ invs' = [new EXCEPT ![i] = [@ EXCEPT !.done = TRUE, !.out = SinkError]]
               /\ UNCHANGED <<emitted, stack>>
    /\ UNCHANGED <<wrappers, opRuns, quad, quad_log, cur>>

\* result = func(args, kwargs), func a plain function.
CallOp(t) ==
    /\ stack[t] # <<>>
    /\ Top(t).pc = "call"
    /\ wrappers[Top(t).w].func.kind = "op"
    /\ LET fr == Top(t)
           o == wrappers[fr.w].func.op
       IN /\ opRuns' = Append(opRuns, [inv |-> fr.inv, w |-> fr.w, op |-> o,
                                       args |-> fr.args, kwargs |-> fr.kwargs])
          /\ LET u == Unwind(stack[t], OpBehaviour(o, fr.args, fr.kwargs))
             IN /\ stack' = [stack EXCEPT ![t] = u.stack]
                /\ invs' = IF u.stack = <<>>
                           THEN [invs EXCEPT ![fr.inv] =
                                    [@ EXCEPT !.done = TRUE, !.out = u.out]]
                           ELSE invs
    /\ UNCHANGED <<wrappers, emitted, failed, quad, quad_log, cur>>

\* Variant: the plain function below is called, not the wrapper around it.
CallInnerUnwrapped(t, ok) ==
    /\ stack[t] # <<>>
    /\ Top(t).pc = "call"
    /\ wrappers[Top(t).w].func.kind = "wrapper"
    /\ ok
    /\ LET fr == Top(t)
           o == BaseOp(fr.w)
       IN /\ opRuns' = Append(opRuns, [inv |-> fr.inv, w |-> fr.w, op |-> o,
                                       args |-> fr.args, kwargs |-> fr.kwargs])
          /\ LET u == Unwind(stack[t], OpBehaviour(o, fr.args, fr.kwargs))
             IN /\ stack' = [stack EXCEPT ![t] = u.stack]
                /\ invs' = IF u.stack = <<>>
                           THEN [invs EXCEPT ![fr.inv] =
                                    [@ EXCEPT !.done = TRUE, !.out = u.out]]
                           ELSE invs
    /\ UNCHANGED <<wrappers, emitted, failed, quad, quad_log, cur>>

\* result = func(args, kwargs), func itself a wrapper.
CallInner(t, ok) ==
    /\ stack[t] # <<>>
    /\ Top(t).pc = "call"
    /\ wrappers[Top(t).w].func.kind = "wrapper"
    /\ LET fr == Top(t)
       IN Enter(t, Frame(fr.inv, wrappers[fr.w].func.w, fr.args, fr.kwargs), ok)
    /\ UNCHANGED <<wrappers, opRuns, quad, quad_log, cur>>

\* Variant: the exception is raised again without a message.
EmitErrSilent(t, ok) ==
    /\ stack[t] # <<>>
    /\ Top(t).pc = "err"
    /\ ok
    /\ Leave(t, Top(t).res)
    /\ UNCHANGED <<wrappers, emitted, failed, opRuns, quad, quad_log, cur>>

\* Variant: after the message a RuntimeError is raised in place of e.
EmitErrReplace(t, ok) ==
    /\ stack[t] # <<>>
    /\ Top(t).pc = "err"
    /\ LET fr == Top(t)
           msg == msg_err(NameOf(wrappers[fr.w].func), fr.res)
       IN IF ok
          THEN /\ emitted' = EmitError(fr, "Failure", msg)
               /\ Leave(t, Raised("RuntimeError", fr.res.emsg))
               /\ UNCHANGED failed
          ELSE /\ CanRefuse
               /\ failed' = Refuse(fr, "err")
               /\ Leave(t, SinkError)
               /\ UNCHANGED emitted
    /\ UNCHANGED <<wrappers, opRuns, quad, quad_log, cur>>

\* except Exception as e: msg_err is written, then raise.
EmitErr(t, ok) ==
    /\ stack[t] # <<>>
    /\ Top(t).pc = "err"
    /\ LET fr == Top(t)
           msg == msg_err(NameOf(wrappers[fr.w].func), fr.res)
       IN IF ok
          THEN /\ emitted' = EmitError(fr, "Failure", msg)
               /\ Leave(t, fr.res)
               /\ UNCHANGED failed
          ELSE /\ CanRefuse
               /\ failed' = Refuse(fr, "err")
               /\ Leave(t, SinkError)
               /\ UNCHANGED emitted
    /\ UNCHANGED <<wrappers, opRuns, quad, quad_log, cur>>

\* Variant: the message is written and nothing is returned.
EmitEndNoResult(t, ok) ==
    /\ stack[t] # <<>>
    /\ Top(t).pc = "end"
    /\ LET fr == Top(t)
           msg == msg_end(NameOf(wrappers[fr.w].func), fr.res.val)
       IN IF ok
          THEN /\ emitted' = EmitInfo(fr, "Success", msg)
               /\ Leave(t, Returned(0))
               /\ UNCHANGED failed
          ELSE /\ CanRefuse
               /\ failed' = Refuse(fr, "end")
               /\ Leave(t, SinkError)
               /\ UNCHANGED emitted
    /\ UNCHANGED <<wrappers, opRuns, quad, quad_log, cur>>

\* Variant: a refused END message is ignored and result is returned.
EmitEndIgnoreRefusal(t, ok) ==
    /\ stack[t] # <<>>
    /\ Top(t).pc = "end"
    /\ LET fr == Top(t)
           msg == msg_end(NameOf(wrappers[fr.w].func), fr.res.val)
       IN IF ok
          THEN /\ emitted' = EmitInfo(fr, "Success", msg)
               /\ Leave(t, fr.res)
               /\ UNCHANGED failed
          ELSE /\ CanRefuse
               /\ failed' = Refuse(fr, "end")
               /\ Leave(t, fr.res)
               /\ UNCHANGED emitted
    /\ UNCHANGED <<wrappers, opRuns, quad, quad_log, cur>>

\* msg_end is written, then return result.
EmitEnd(t, ok) ==
    /\ stack[t] # <<>>
    /\ Top(t).pc = "end"
    /\ LET fr == Top(t)
           msg == msg_end(NameOf(wrappers[fr.w].func), fr.res.val)
       IN IF ok
          THEN /\ emitted' = EmitInfo(fr, "Success", msg)
               /\ Leave(t, fr.res)
               /\ UNCHANGED failed
          ELSE /\ CanRefuse
               /\ failed' = Refuse(fr, "end")
               /\ Leave(t, SinkError)
               /\ UNCHANGED emitted
    /\ UNCHANGED <<wrappers, opRuns, quad, quad_log, cur>>

\* The wrapper with sinks that accept every write.
Next ==
    \/ \E f \in Callables, h \in Handles, direct \in BOOLEAN : Wrap(f, h, direct)
    \/ \E t \in Threads, w \in 1..MaxWrappers, cf \in CallForms : Invoke(t, w, cf, TRUE)
    \/ \E t \in Threads : CallOp(t)
    \/ \E t \in Threads : CallInner(t, TRUE)
    \/ \E t \in Threads : EmitErr(t, TRUE)
    \/ \E t \in Threads : EmitEnd(t, TRUE)

Spec == Init /\ [][Next]_vars

\* The wrapper with sinks that may refuse a write.
NextSinkFail ==
    \/ \E f \in Callables, h \in Handles, direct \in BOOLEAN : Wrap(f, h, direct)
    \/ \E t \in Threads, w \in 1..MaxWrappers, cf \in CallForms, ok \in BOOLEAN :
          Invoke(t, w, cf, ok)
    \/ \E t \in Threads : CallOp(t)
    \/ \E t \in Threads, ok \in BOOLEAN : CallInner(t, ok)
    \/ \E t \in Threads, ok \in BOOLEAN : EmitErr(t, ok)
    \/ \E t \in Threads, ok \in BOOLEAN : EmitEnd(t, ok)

SpecSinkFail == Init /\ [][NextSinkFail]_vars

(***************************************************************************)
(* solve_quadratic(a, b, c), decorated with logger(handle=quad_logger).    *)
(* A coefficient is an int or, like "abc", a str.  A root is kept as the   *)
(* expression the code evaluates, (nb + sq * sqrt(d)) / den.  The calls on *)
(* quad_logger are recorded by channel and message kind, not by text.      *)
(***************************************************************************)
MaxCoef == 3

IntVal(n) == [ty |-> "int", v |-> n]
StrVal == [ty |-> "str", v |-> 0]
Coefs == {IntVal(n) : n \in -MaxCoef..MaxCoef} \cup {StrVal}

\* isinstance(value, (int, float))
IsNumeric(x) == x.ty \in {"int", "float"}

QNoOut == [kind |-> "none", roots |-> <<>>, etype |-> "", emsg |-> ""]
QNone == [kind |-> "None", roots |-> <<>>, etype |-> "", emsg |-> ""]
QRoots(rs) == [kind |-> "roots", roots |-> rs, etype |-> "", emsg |-> ""]
QRaised(ty, m) == [kind |-> "raise", roots |-> <<>>, etype |-> ty, emsg |-> m]

Root(nb, sq, d, den) == [nb |-> nb, sq |-> sq, d |-> d, den |-> den]

QLog(chan, what) == Append(quad_log, [chan |-> chan, what |-> what])

InitQuad ==
    /\ InitWrapper
    /\ cur = CurIdle
    /\ quad_log = <<>>
    /\ \E a \in Coefs, b \in Coefs, c \in Coefs :
          quad = [pc |-> "start", a |-> a, b |-> b, c |-> c, i |-> 1, d |-> 0, out |-> QNoOut]

\* wrapper: the START message goes to quad_logger.info, then func is called.
QuadStart ==
    /\ quad.pc = "start"
    /\ quad_log' = QLog("info", "START")
    /\ quad' = [quad EXCEPT !.pc = "types"]
    /\ UNCHANGED <<wvars, cur>>

\* for name, value in zip(("a", "b", "c"), (a, b, c)): one iteration.
QuadCheckType ==
    /\ quad.pc = "types"
    /\ LET value == <<quad.a, quad.b, quad.c>>[quad.i]
           name == <<"a", "b", "c">>[quad.i]
       IN IF ~IsNumeric(value)
          THEN /\ quad_log' = QLog("error", "Invalid type")
               /\ quad' = [quad EXCEPT !.pc = "err",
                              !.out = QRaised("TypeError",
                                  "Coefficient '" \o name \o "' must be numeric")]
          ELSE /\ quad' = [quad EXCEPT !.i = quad.i + 1,
                              !.pc = IF quad.i = 3 THEN "degenerate" ELSE "types"]
               /\ UNCHANGED quad_log
    /\ UNCHANGED <<wvars, cur>>

\* if a == 0 and b == 0: critical, raise ValueError; else d = b*b - 4*a*c.
QuadDiscriminant ==
    /\ quad.pc = "degenerate"
    /\ IF quad.a.v = 0 /\ quad.b.v = 0
       THEN /\ quad_log' = QLog("critical", "Impossible equation")
            /\ quad' = [quad EXCEPT !.pc = "err",
                           !.out = QRaised("ValueError", "Invalid quadratic equation")]
       ELSE /\ quad_log' = QLog("debug", "Discriminant")
            /\ quad' = [quad EXCEPT !.pc = "roots",
                           !.d = quad.b.v * quad.b.v - 4 * quad.a.v * quad.c.v]
    /\ UNCHANGED <<wvars, cur>>

\* The three branches on d.  A division by 2 * a = 0 raises
\* ZeroDivisionError before anything is logged or returned.
QuadRoots ==
    /\ quad.pc = "roots"
    /\ LET a == quad.a.v
           b == quad.b.v
           d == quad.d
       IN IF d < 0
          THEN /\ quad_log' = QLog("warning", "no real roots")
               /\ quad' = [quad EXCEPT !.pc = "end", !.out = QNone]
          ELSE IF 2 * a = 0
          THEN /\ quad' = [quad EXCEPT !.pc = "err",
                              !.out = QRaised("ZeroDivisionError", "float division by zero")]
               /\ UNCHANGED quad_log
          ELSE IF d = 0
          THEN /\ quad_log' = QLog("info", "One real root")
               /\ quad' = [quad EXCEPT !.pc = "end",
                              !.out = QRoots(<<Root(-b, 0, d, 2 * a)>>)]
          ELSE /\ quad_log' = QLog("info", "Two real roots computed")
               /\ quad' = [quad EXCEPT !.pc = "end",
                              !.out = QRoots(<<Root(-b, 1, d, 2 * a), Root(-b, -1, d, 2 * a)>>)]
    /\ UNCHANGED <<wvars, cur>>

\* wrapper: the END message goes to quad_logger.info and result is returned.
QuadEnd ==
    /\ quad.pc = "end"
    /\ quad_log' = QLog("info", "END")
    /\ quad' = [quad EXCEPT !.pc = "done"]
    /\ UNCHANGED <<wvars, cur>>

\* wrapper: except Exception: the ERROR message goes to quad_logger.error
\* and the exception is raised again.
QuadErr ==
    /\ quad.pc = "err"
    /\ quad_log' = QLog("error", "ERROR")
    /\ quad' = [quad EXCEPT !.pc = "done"]
    /\ UNCHANGED <<wvars, cur>>

NextQuad ==
    \/ QuadStart
    \/ QuadCheckType
    \/ QuadDiscriminant
    \/ QuadRoots
    \/ QuadEnd
    \/ QuadErr

SpecQuad == InitQuad /\ [][NextQuad]_vars

(***************************************************************************)
(* get_currencies(currency_codes, url)                                     *)
(* The endpoint behind url is an input: whether it answers, whether the    *)
(* body is JSON, whether the object has the key "Valute", and what that     *)
(* holds for each currency code.  An exception is kept by its type and the *)
(* key or code its message names.                                          *)
(***************************************************************************)
MaxCodes == 2

Codes == {"USD", "EUR"}
\* What data["Valute"] holds for a code: no entry, an entry whose "Value"
\* is a number, an entry whose "Value" is a string, an entry without "Value".
EntryKinds == {"absent", "number", "string", "novalue"}
\* The numbers of the feed.
Rate(code) == IF code = "USD" THEN 90 ELSE 98

CodeLists == UNION {[1..n -> Codes] : n \in 0..MaxCodes}

CNoOut == [kind |-> "none", result |-> {}, etype |-> "", about |-> ""]
CReturned(r) == [kind |-> "return", result |-> r, etype |-> "", about |-> ""]
CRaised(ty, what) == [kind |-> "raise", result |-> {}, etype |-> ty, about |-> what]

InitCur ==
    /\ InitWrapper
    /\ quad = QuadIdle
    /\ quad_log = <<>>
    /\ \E codes \in CodeLists, net \in {"ok", "unreachable", "http_error"},
          json \in BOOLEAN, hasValute \in BOOLEAN, valute \in [Codes -> EntryKinds] :
          cur = [pc |-> "request", currency_codes |-> codes, net |-> net, json |-> json,
                 hasValute |-> hasValute, valute |-> valute,
                 i |-> 1, result |-> {}, requests |-> 0, out |-> CNoOut]

\* response = requests.get(url); response.raise_for_status()
CurRequest ==
    /\ cur.pc = "request"
    /\ cur' = IF cur.net # "ok"
              THEN [cur EXCEPT !.requests = @ + 1, !.pc = "done",
                               !.out = CRaised("ConnectionError", "")]
              ELSE [cur EXCEPT !.requests = @ + 1, !.pc = "json"]
    /\ UNCHANGED <<wvars, quad, quad_log>>

\* data = response.json()
CurJson ==
    /\ cur.pc = "json"
    /\ cur' = IF ~cur.json
              THEN [cur EXCEPT !.pc = "done", !.out = CRaised("ValueError", "")]
              ELSE [cur EXCEPT !.pc = "valute"]
    /\ UNCHANGED <<wvars, quad, quad_log>>

\* if "Valute" not in data: raise KeyError; result = {}
CurValute ==
    /\ cur.pc = "valute"
    /\ cur' = IF ~cur.hasValute
              THEN [cur EXCEPT !.pc = "done", !.out = CRaised("KeyError", "Valute")]
              ELSE [cur EXCEPT !.pc = "loop", !.result = {}, !.i = 1]
    /\ UNCHANGED <<wvars, quad, quad_log>>

\* Variant: a code that is absent from the feed is skipped.
CurCodeSkipAbsent ==
    /\ cur.pc = "loop"
    /\ cur.i <= Len(cur.currency_codes)
    /\ LET code == cur.currency_codes[cur.i]
           kind == cur.valute[code]
       IN cur' = IF kind = "absent"
                 THEN [cur EXCEPT !.i = @ + 1]
                 ELSE IF kind # "number"
                 THEN [cur EXCEPT !.pc = "done", !.out = CRaised("TypeError", code)]
                 ELSE [cur EXCEPT !.i = @ + 1,
                          !.result = {p \in @ : p[1] # code} \cup {<<code, Rate(code)>>}]
    /\ UNCHANGED <<wvars, quad, quad_log>>

\* for code in currency_codes: one iteration.
CurCode ==
    /\ cur.pc = "loop"
    /\ cur.i <= Len(cur.currency_codes)
    /\ LET code == cur.currency_codes[cur.i]
           kind == cur.valute[code]
       IN cur' = IF kind = "absent"
                 THEN [cur EXCEPT !.pc = "done", !.out = CRaised("KeyError", code)]
                 ELSE IF kind # "number"
                 THEN [cur EXCEPT !.pc = "done", !.out = CRaised("TypeError", code)]
                 ELSE [cur EXCEPT !.i = @ + 1,
                          !.result = {p \in @ : p[1] # code} \cup {<<code, Rate(code)>>}]
    /\ UNCHANGED <<wvars, quad, quad_log>>

\* return result
CurReturn ==
    /\ cur.pc = "loop"
    /\ cur.i > Len(cur.currency_codes)
    /\ cur' = [cur EXCEPT !.pc = "done", !.out = CReturned(cur.result)]
    /\ UNCHANGED <<wvars, quad, quad_log>>

NextCur ==
    \/ CurRequest
    \/ CurJson
    \/ CurValute
    \/ CurCode
    \/ CurReturn

SpecCur == InitCur /\ [][NextCur]_vars

(***************************************************************************)
(* Properties of the wrapper.                                              *)
(***************************************************************************)
Calls == 1..Len(invs)
Finished == {i \in Calls : invs[i].done}

\* What the plain function does on the arguments of call i.
OpOutcome(i) == OpBehaviour(BaseOp(invs[i].w), invs[i].args, invs[i].kwargs)
IsError(out) == out.kind = "raise" /\ IsException(out.etype)
IsExit(out) == out.kind = "raise" /\ ~IsException(out.etype)

\* The accepted emissions of wrapper v in call i, and their event kinds.
EventsOf(i, v) == SelectSeq(emitted, LAMBDA e : e.inv = i /\ e.w = v)
Kinds(i, v) == [k \in 1..Len(EventsOf(i, v)) |-> EventsOf(i, v)[k].event]
Refusals(i, v) == {f \in failed : f.inv = i /\ f.w = v}
RunsOf(i) == {k \in 1..Len(opRuns) : opRuns[k].inv = i}

Lifecycle == {<<"Start", "Success">>, <<"Start", "Failure">>}
Prefixes == {<<>>, <<"Start">>} \cup Lifecycle

\* Calls of a wrapper around a plain function, and of a wrapper around a wrapper.
DirectCalls == {i \in Finished : wrappers[invs[i].w].func.kind = "op"}
NestedCalls == {i \in Finished : wrappers[invs[i].w].func.kind = "wrapper"}

\* The message formats of the specification, with or without the newline
\* a stream sink appends.
SpecFailureTexts(name, e) ==
    LET m == "ERROR in " \o name \o ": " \o e.etype \o ": " \o e.emsg
    IN {m, m \o "\n"}

\* C1 as stated: for a function that returns or raises an error, whatever
\* the sink does, every finished call left exactly one Start followed by
\* exactly one terminal event.
C1_AlwaysStartThenTerminal ==
    \A i \in Finished : ~IsExit(OpOutcome(i)) => Kinds(i, invs[i].w) \in Lifecycle

\* C1 amended: a wrapper call never leaves more than one Start and one
\* terminal event, the terminal one after the Start; it leaves exactly
\* Start then one terminal event when the function returns or raises an
\* error and the sink refused none of its writes; wrapping emits nothing.
C1_StartThenTerminalWhenSinkAccepts ==
    /\ [](\A i \in Calls :
            /\ \A v \in 1..Len(wrappers) :
                  /\ Kinds(i, v) \in Prefixes
                  /\ (/\ i \in Finished
                      /\ v = invs[i].w \/ Kinds(i, v) # <<>>
                      /\ Refusals(i, v) = {}
                      /\ ~IsExit(OpOutcome(i)))
                        => Kinds(i, v) \in Lifecycle)
    /\ [][wrappers' # wrappers => emitted' = emitted]_vars

C1_Witness ==
    \E i \in Finished : /\ Kinds(i, invs[i].w) = <<"Start", "Failure">>
                        /\ Refusals(i, invs[i].w) = {}
                        /\ Len(wrappers) = MaxWrappers

\* C2: when the function raises the error e, the call raises the same e,
\* and the last thing the wrapper did before was to emit a Failure event
\* with the function's name, e's type and e's message.
C2_ErrorTransparency ==
    \A i \in DirectCalls : IsError(OpOutcome(i)) =>
        LET ev == EventsOf(i, invs[i].w)
        IN /\ invs[i].out = OpOutcome(i)
           /\ Len(ev) = 2
           /\ ev[2].event = "Failure"
           /\ ev[2].text \in SpecFailureTexts(BaseOp(invs[i].w), OpOutcome(i))

C2_Witness ==
    \E i \in DirectCalls : /\ invs[i].out = Raised("ValueError", "boom")
                           /\ Len(EventsOf(i, invs[i].w)) = 2
                           /\ EventsOf(i, invs[i].w)[2].event = "Failure"

\* C3: when the function returns a value the call returns that value, and
\* the function received the positional and keyword arguments of the call.
C3_Transparency ==
    \A i \in DirectCalls :
        /\ OpOutcome(i).kind = "return" => invs[i].out = OpOutcome(i)
        /\ RunsOf(i) # {}
        /\ \A k \in RunsOf(i) : /\ opRuns[k].args = invs[i].args
                                /\ opRuns[k].kwargs = invs[i].kwargs

C3_Witness ==
    \E i, j \in DirectCalls :
        /\ invs[i].out = Returned(8) /\ invs[i].args = <<4>>
        /\ invs[j].kwargs # <<>> /\ RunsOf(j) # {}

\* C4: the same function called with the same arguments through a stream
\* wrapper and through a Logger wrapper leaves the same events with the
\* same messages; the stream gets each message plus a newline by write, the
\* Logger gets Start and Success by info and Failure by error, and never a
\* call on another channel; a wrapper's variant never changes.
C4_SinkPolymorphism ==
    /\ [](/\ \A i, j \in Finished :
               (/\ ~wrappers[invs[i].w].is_logger
                /\ wrappers[invs[j].w].is_logger
                /\ wrappers[invs[i].w].func = wrappers[invs[j].w].func
                /\ invs[i].args = invs[j].args
                /\ invs[i].kwargs = invs[j].kwargs)
               => LET si == EventsOf(i, invs[i].w)
                      lj == EventsOf(j, invs[j].w)
                  IN /\ Len(si) = Len(lj)
                     /\ \A k \in 1..Len(si) :
                           /\ si[k].event = lj[k].event
                           /\ si[k].text = lj[k].text \o "\n"
          /\ \A k \in 1..Len(emitted) :
               IF IsLoggerType(emitted[k].handle)
               THEN emitted[k].chan = (IF emitted[k].event = "Failure" THEN "error" ELSE "info")
               ELSE emitted[k].chan = "write")
    /\ [][\A w \in 1..Len(wrappers) : wrappers'[w] = wrappers[w]]_vars

C4_Witness ==
    \E i, j \in Finished :
        /\ ~wrappers[invs[i].w].is_logger /\ wrappers[invs[j].w].is_logger
        /\ wrappers[invs[i].w].func = wrappers[invs[j].w].func
        /\ invs[i].args = invs[j].args /\ invs[i].kwargs = invs[j].kwargs
        /\ Kinds(i, invs[i].w) = <<"Start", "Failure">>
        /\ Kinds(j, invs[j].w) = <<"Start", "Failure">>

\* The events of the outer wrapper w and the wrapper v it wraps, in call i,
\* in the order they were emitted.
PairEvents(i, w, v) ==
    LET ev == SelectSeq(emitted, LAMBDA e : e.inv = i /\ e.w \in {w, v})
    IN [k \in 1..Len(ev) |-> <<ev[k].w, ev[k].event>>]
InnerOf(i) == wrappers[invs[i].w].func.w

\* C5: a call of a wrapper around a wrapper returns what the function
\* returns or raises what it raises, and runs the function once; when the
\* function returns or raises an error the events are outer Start, inner
\* Start, inner terminal, outer terminal, the two terminals of one kind.
C5_NestedTransparency ==
    \A i \in NestedCalls :
        /\ invs[i].out = OpOutcome(i)
        /\ Cardinality(RunsOf(i)) = 1
        /\ ~IsExit(OpOutcome(i)) =>
              LET T == IF OpOutcome(i).kind = "return" THEN "Success" ELSE "Failure"
              IN PairEvents(i, invs[i].w, InnerOf(i)) =
                    << <<invs[i].w, "Start">>, <<InnerOf(i), "Start">>,
                       <<InnerOf(i), T>>, <<invs[i].w, T>> >>

C5_Witness ==
    \E i, j \in NestedCalls :
        /\ invs[i].out = Returned(8)
        /\ wrappers[invs[i].w].handle # wrappers[InnerOf(i)].handle
        /\ invs[j].out = Raised("ValueError", "boom")

\* C8: a write the sink refuses raises the sink's error out of the wrapper
\* call: after a refused Start nothing of that wrapper call is in the sink,
\* after a refused Success or Failure only its Start is; the caller gets
\* the sink's error, neither the function's value nor the function's error.
C8_SinkFailurePropagates ==
    \A f \in failed :
        /\ f.inv \in Finished => invs[f.inv].out = SinkError
        /\ f.at = "start" => Kinds(f.inv, f.w) = <<>>
        /\ f.at \in {"end", "err"} => Kinds(f.inv, f.w) = <<"Start">>
        /\ (f.inv \in Finished /\ f.w = invs[f.inv].w /\ f.inv \in DirectCalls)
              => /\ f.at = "end" => OpOutcome(f.inv).kind = "return"
                 /\ f.at = "err" => IsError(OpOutcome(f.inv))
                 /\ invs[f.inv].out # OpOutcome(f.inv)

C8_Witness ==
    \E f \in failed : /\ f.inv \in DirectCalls
                      /\ f.at = "err"
                      /\ invs[f.inv].out = SinkError
                      /\ OpOutcome(f.inv) = Raised("ValueError", "boom")

\* C9: the function runs at most once per call and only after the Start
\* event of the wrapper that calls it is in the sink; after a refused Start
\* the function never runs and that wrapper call emits no terminal event.
C9_StartBeforeOp ==
    /\ \A i \in Calls : Cardinality(RunsOf(i)) <= 1
    /\ \A k \in 1..Len(opRuns) :
          /\ Len(Kinds(opRuns[k].inv, opRuns[k].w)) >= 1
          /\ Kinds(opRuns[k].inv, opRuns[k].w)[1] = "Start"
    /\ \A f \in failed : f.at = "start" =>
          /\ RunsOf(f.inv) = {}
          /\ Kinds(f.inv, f.w) = <<>>

C9_Witness ==
    /\ \E f \in failed : f.at = "start" /\ f.inv \in Finished /\ f.inv \in NestedCalls
    /\ \E i \in Finished : RunsOf(i) # {}

\* C10: with calls running on several threads, every call that returned or
\* raised an error has exactly one Start and, after it, one terminal event
\* in the sink of its wrapper, and every running call has its Start there.
C10_ConcurrentCalls ==
    \A i \in Calls :
        LET ev == SelectSeq(Sink(wrappers[invs[i].w].handle),
                            LAMBDA e : e.inv = i /\ e.w = invs[i].w)
        IN /\ Len(ev) >= 1
           /\ ev[1].event = "Start"
           /\ ~invs[i].done => Len(ev) = 1
           /\ (invs[i].done /\ ~IsExit(OpOutcome(i)))
                 => Len(ev) = 2 /\ ev[2].event \in {"Success", "Failure"}

\* Two calls of one wrapper whose events interleave in its sink.
C10_Witness ==
    /\ Len(invs) = 2 /\ Finished = {1, 2}
    /\ invs[1].w = invs[2].w
    /\ wrappers[invs[1].w].func.kind = "op"
    /\ [k \in 1..Len(emitted) |-> emitted[k].inv] = <<1, 2, 1, 2>>

(***************************************************************************)
(* Properties of solve_quadratic.                                          *)
(***************************************************************************)
\* C6 as stated: a coefficient that is not numeric gives TypeError before
\* any other check; a = 0 and b = 0 gives ValueError; every other input
\* ends without failure: None when d < 0, one root when d = 0, the two
\* roots (+root, -root) when d > 0.
C6_QuadraticOutcomes ==
    quad.pc = "done" =>
        LET a == quad.a.v
            b == quad.b.v
            c == quad.c.v
            d == b * b - 4 * a * c
        IN IF ~(IsNumeric(quad.a) /\ IsNumeric(quad.b) /\ IsNumeric(quad.c))
           THEN quad.out.kind = "raise" /\ quad.out.etype = "TypeError"
           ELSE IF a = 0 /\ b = 0
           THEN quad.out.kind = "raise" /\ quad.out.etype = "ValueError"
           ELSE IF d < 0 THEN quad.out.kind = "None"
           ELSE IF d = 0 THEN quad.out.kind = "roots" /\ Len(quad.out.roots) = 1
           ELSE /\ quad.out.kind = "roots"
                /\ Len(quad.out.roots) = 2
                /\ quad.out.roots[1].sq = 1
                /\ quad.out.roots[2].sq = -1

(***************************************************************************)
(* Properties of get_currencies.                                           *)
(***************************************************************************)
\* The positions in the requested list of the codes that fail a check.
BadCodes == {k \in 1..Len(cur.currency_codes) : cur.valute[cur.currency_codes[k]] # "number"}
FirstBad == CHOOSE k \in BadCodes : \A m \in BadCodes : k <= m

\* C7: one request is made; the call ends at the first check that fails:
\* ConnectionError for an endpoint that does not answer or answers with an
\* HTTP error, ValueError for a body that is not JSON, KeyError for a
\* missing "Valute", then, in the order of the request, KeyError for the
\* first code that is absent or TypeError for the first code whose rate is
\* not a number, with no result; otherwise the result maps exactly the
\* requested codes to the feed's rates.
C7_FirstFailureIsTerminal ==
    /\ cur.requests <= 1
    /\ cur.pc = "done" =>
        /\ cur.requests = 1
        /\ IF cur.net # "ok" THEN cur.out = CRaised("ConnectionError", "")
           ELSE IF ~cur.json THEN cur.out = CRaised("ValueError", "")
           ELSE IF ~cur.hasValute THEN cur.out = CRaised("KeyError", "Valute")
           ELSE IF BadCodes # {}
           THEN LET code == cur.currency_codes[FirstBad]
                IN /\ cur.out.kind = "raise"
                   /\ cur.out.result = {}
                   /\ cur.out.about = code
                   /\ cur.valute[code] = "absent" => cur.out.etype = "KeyError"
                   /\ cur.valute[code] = "string" => cur.out.etype = "TypeError"
           ELSE /\ cur.out.kind = "return"
                /\ cur.out.result = {<<cur.currency_codes[k], Rate(cur.currency_codes[k])>> :
                                        k \in 1..Len(cur.currency_codes)}

C7_Witness ==
    /\ cur.pc = "done"
    /\ cur.currency_codes = <<"USD", "EUR">>
    /\ cur.valute["USD"] = "number"
    /\ cur.valute["EUR"] = "absent"
    /\ cur.out = CRaised("KeyError", "EUR")

====
